---- MODULE Spec2Model ----
(***************************************************************************)
(* humphrey: a scraper for html pages.  The repository holds three         *)
(* generations of the program:                                             *)
(*   src/humphrey.go       rules "key:selector[:attribute]", urls read     *)
(*                         from stdin or -page, -strict, -arrays, -tmpl    *)
(*   src/unnamed/part_001  rules "key/selector[/attribute]", one -page     *)
(*   src/README.md         (the Go text after the README) rules with       *)
(*                         nested names, prepare / addValues               *)
(* Strings are sequences of one-character strings.                         *)
(***************************************************************************)
EXTENDS Integers, Sequences, FiniteSets, TLC

VARIABLES
    doc,      \* SpecApply: the elements of the parsed document, in document order
    extracted, \* SpecApply: vals, the strings rule.apply collected
    s,        \* SpecRule: the rule text handed to newRule
    res,      \* SpecRule: what newRule returned
    variant,  \* SpecRule: which newRule ran ("" before the call)
    prog,     \* which main runs: "humphrey.go" or "README.md"
    pc,       \* where main stands
    flags,    \* humphrey.go: the flags -strict, -arrays, -tmpl
    args,     \* flag.Args(): the rule texts
    rules,    \* the rules parsed so far
    m,        \* the result map of the url at hand
    counts,   \* counts[k]: how many elements rule k's selector matched in
              \* the document at hand
    outcome,  \* per url fetched so far, how its processing ended
    stdout,   \* what was written to os.Stdout, one entry per url
    stderr,   \* the diagnostic of log.Fatal / usage ("" while running)
    exit      \* the exit status (-1 while running)

mainVars == <<prog, pc, flags, args, rules, m, counts, outcome, stdout, stderr, exit>>
vars == <<doc, extracted, s, res, variant, prog, pc, flags, args, rules, m, counts, outcome,
          stdout, stderr, exit>>

\* ------------------------------------------------------------------ bounds
MaxArgLen == 6
MaxDepth == 3
MaxRules == 2
MaxMatches == 2
MaxUrls == 2
MaxRawLen == 4
MaxElems == 2

\* ----------------------------------------------------------------- strings
Chars == {"a", " ", "/", ":"}

Max(a, b) == IF a >= b THEN a ELSE b

RECURSIVE StringsUpTo(_, _)
StringsUpTo(alphabet, n) ==
    IF n = 0 THEN {<<>>}
    ELSE LET shorter == StringsUpTo(alphabet, n - 1)
         IN  shorter \cup {Append(x, c) : x \in shorter, c \in alphabet}

\* the white space of unicode.IsSpace that the texts of the model hold
Space == {" ", "\t"}

\* strings.TrimSpace: drop leading and trailing white space
RECURSIVE TrimLeft(_)
TrimLeft(x) == IF x # <<>> /\ Head(x) \in Space THEN TrimLeft(Tail(x)) ELSE x

RECURSIVE TrimRight(_)
TrimRight(x) ==
    IF x # <<>> /\ x[Len(x)] \in Space THEN TrimRight(SubSeq(x, 1, Len(x) - 1)) ELSE x

TrimSpace(x) == TrimRight(TrimLeft(x))

\* html.UnescapeString.  The texts of the model hold one digit, no letter
\* and no x, so of the character references only the decimal "&#9...9;"
\* can occur; every other "&" stays as it is.
Digits == {"9"}

\* the character with code point x: a tab for 9, c for 99, the replacement
\* character for 0, the surrogates and what lies past U+10FFFF
Rune(x) ==
    IF x = 9 THEN "\t"
    ELSE IF x = 32 THEN " "
    ELSE IF x = 99 THEN "c"
    ELSE IF x = 0 \/ (55296 <= x /\ x <= 57343) \/ x > 1114111 THEN "U+FFFD"
    ELSE ToString(x)

\* the loop of unescapeEntity over the digits: the place after the last
\* digit read from i on, and the number read
RECURSIVE ReadDigits(_, _, _)
ReadDigits(x, i, n) ==
    IF i <= Len(x) /\ x[i] \in Digits
    THEN ReadDigits(x, i + 1, 10 * n + 9)
    ELSE [i |-> i, x |-> n]

\* unescapeEntity at x[1] = "&": the decoded character and how many
\* characters of x it stands for; the "&" itself when nothing is decoded.
\* It wants at least "&#" and two more characters, and something matched
\* past the third character (a digit and a ";", or two digits).
unescapeEntity(x) ==
    IF Len(x) <= 1 \/ x[2] # "#" \/ Len(x) <= 3
    THEN [c |-> "&", n |-> 1]
    ELSE LET d == ReadDigits(x, 3, 0)
             i == IF d.i <= Len(x) /\ x[d.i] = ";" THEN d.i ELSE d.i - 1
         IN  IF i <= 3 THEN [c |-> "&", n |-> 1]
             ELSE [c |-> Rune(d.x), n |-> i]

RECURSIVE UnescapeString(_)
UnescapeString(x) ==
    IF x = <<>> THEN <<>>
    ELSE IF Head(x) # "&" THEN <<Head(x)>> \o UnescapeString(Tail(x))
    ELSE LET e == unescapeEntity(x)
         IN  <<e.c>> \o UnescapeString(SubSeq(x, e.n + 1, Len(x)))

\* strings.Index for a one-character separator: 0 when absent
RECURSIVE IndexFrom(_, _, _)
IndexFrom(x, sep, i) ==
    IF i > Len(x) THEN 0
    ELSE IF x[i] = sep THEN i
    ELSE IndexFrom(x, sep, i + 1)

Index(x, sep) == IndexFrom(x, sep, 1)

\* strings.SplitN(x, sep, n) for n > 0: at most n parts, the last one the
\* unsplit remainder
RECURSIVE SplitN(_, _, _)
SplitN(x, sep, n) ==
    LET i == Index(x, sep)
    IN  IF n = 1 \/ i = 0 THEN <<x>>
        ELSE <<SubSeq(x, 1, i - 1)>> \o SplitN(SubSeq(x, i + 1, Len(x)), sep, n - 1)

\* strings.Split(x, sep): every part
Split(x, sep) == SplitN(x, sep, Len(x) + 1)

\* ------------------------------------------------------------------- rules
\* type rule struct { Name, Selector, Attribute string }
Rule(name, selector, attribute) ==
    [Name |-> name, Selector |-> selector, Attribute |-> attribute]

NoRule == Rule(<<>>, <<>>, <<>>)

\* (*rule, error): rule is NoRule (the nil pointer) exactly when err # "nil"
Parsed(r) == [err |-> "nil", rule |-> r]
Failed(e) == [err |-> e, rule |-> NoRule]

NotCalled == [err |-> "not called", rule |-> NoRule]

\* newRule of src/humphrey.go: SplitN on a colon, no trimming, no check
newRuleColon(x) ==
    LET toks == SplitN(x, ":", 3)
    IN  CASE Len(toks) = 2 -> Parsed(Rule(toks[1], toks[2], <<>>))
          [] Len(toks) = 3 -> Parsed(Rule(toks[1], toks[2], toks[3]))
          [] OTHER -> Failed("can't parse rule")

\* newRule of src/unnamed/part_001: the same with a slash
newRuleSplitN(x) ==
    LET toks == SplitN(x, "/", 3)
    IN  CASE Len(toks) = 2 -> Parsed(Rule(toks[1], toks[2], <<>>))
          [] Len(toks) = 3 -> Parsed(Rule(toks[1], toks[2], toks[3]))
          [] OTHER -> Failed("can't parse rule")

\* a newRule that splits like the older generations (SplitN, at most 3 parts)
newRuleAtMost3(x) ==
    LET toks == SplitN(x, "/", 3)
        full == IF Len(toks) = 2 THEN Append(toks, <<>>) ELSE toks
        trimmed == [i \in 1..Len(full) |-> TrimSpace(full[i])]
    IN  IF Len(toks) # 2 /\ Len(toks) # 3 THEN Failed("can't parse rule")
        ELSE IF trimmed[1] = <<>> \/ trimmed[2] = <<>> THEN Failed("empty parts")
        ELSE Parsed(Rule(trimmed[1], trimmed[2], trimmed[3]))

\* newRule of src/README.md: Split on every slash, 2 or 3 parts, each
\* trimmed, name and selector not empty
newRule(x) ==
    LET toks == Split(x, "/")
        full == IF Len(toks) = 2 THEN Append(toks, <<>>) ELSE toks
        trimmed == [i \in 1..Len(full) |-> TrimSpace(full[i])]
    IN  IF Len(toks) # 2 /\ Len(toks) # 3 THEN Failed("can't parse rule")
        ELSE IF trimmed[1] = <<>> \/ trimmed[2] = <<>> THEN Failed("empty parts")
        ELSE Parsed(Rule(trimmed[1], trimmed[2], trimmed[3]))

\* -------------------------------------------------------------- result map
\* The values a map[string]any holds here, by their dynamic type.  A nil
\* []string (var vals []string, never appended to) is a []string all the same.
NilValue == [t |-> "nil", isNil |-> TRUE, v |-> <<>>]
StringValue(x) == [t |-> "string", isNil |-> FALSE, v |-> x]
Strings(xs, isNil) == [t |-> "[]string", isNil |-> isNil, v |-> xs]
Records(os) == [t |-> "[]map[string]string", isNil |-> FALSE, v |-> os]
MapValue == [t |-> "map[string]any", isNil |-> FALSE, v |-> <<>>]

\* A map[string]any and the maps nested in it: a function from the path of
\* keys to the value there.  make(map[string]any) is the empty function.
EmptyMap == <<>>

Put(mm, p, x) == [q \in (DOMAIN mm) \cup {p} |-> IF q = p THEN x ELSE mm[q]]

\* the texts rule k extracts from a document in which its selector matches n
\* elements, in document order: Val(k, i) is the text of the i-th match
Val(k, i) == <<k, i>>
Vals(k, n) == [i \in 1..n |-> Val(k, i)]

\* rule.apply of src/humphrey.go, lines 55-79: vals starts nil and grows by
\* append, then the value stored under the name follows as_array and len(vals)
apply(r, vals, mm, as_array) ==
    IF as_array \/ Len(vals) > 1
    THEN Put(mm, <<r.Name>>, Strings(vals, Len(vals) = 0))
    ELSE IF Len(vals) = 0
         THEN Put(mm, <<r.Name>>, NilValue)
         ELSE Put(mm, <<r.Name>>, StringValue(vals[1]))

\* the loop of downloadAndApplyRules, src/humphrey.go lines 118-121
RECURSIVE applyFrom(_, _, _, _, _)
applyFrom(rs, ns, mm, as_array, k) ==
    IF k > Len(rs) THEN mm
    ELSE applyFrom(rs, ns, apply(rs[k], Vals(k, ns[k]), mm, as_array), as_array, k + 1)

\* prepare of src/README.md, the loop of lines 271-283 from part i on
RECURSIVE prepareChain(_, _, _, _)
prepareChain(mm, parts, parent, i) ==
    IF i > Len(parts) - 2 THEN [m |-> mm, parent |-> parent, err |-> "nil"]
    ELSE LET p == Append(parent, parts[i])
         IN  IF p \in DOMAIN mm
             THEN IF mm[p].t = "map[string]any"
                  THEN prepareChain(mm, parts, p, i + 1)
                  ELSE [m |-> mm, parent |-> parent,
                        err |-> "name mismatch: not map[string]any"]
             ELSE prepareChain(Put(mm, p, MapValue), parts, p, i + 1)

\* a prepare that overwrites a slot of another shape instead of refusing
prepareNameOverwrite(mm, name) ==
    LET parts == Split(name, ".")
        walked == IF Len(parts) > 2
                  THEN prepareChain(mm, parts, <<>>, 1)
                  ELSE [m |-> mm, parent |-> <<>>, err |-> "nil"]
        terminals == IF Len(parts) > 2
                     THEN SubSeq(parts, Len(parts) - 1, Len(parts))
                     ELSE parts
        slot == Append(walked.parent, terminals[1])
        want == IF Len(terminals) = 1 THEN Strings(<<>>, FALSE) ELSE Records(<<>>)
    IN  IF walked.err # "nil" THEN [m |-> walked.m, err |-> walked.err]
        ELSE IF slot \in DOMAIN walked.m /\ walked.m[slot].t = want.t
        THEN [m |-> walked.m, err |-> "nil"]
        ELSE [m |-> Put(walked.m, slot, want), err |-> "nil"]

\* one round of prepare's loop over the names, lines 267-305
prepareName(mm, name) ==
    LET parts == Split(name, ".")
        walked == IF Len(parts) > 2
                  THEN prepareChain(mm, parts, <<>>, 1)
                  ELSE [m |-> mm, parent |-> <<>>, err |-> "nil"]
        terminals == IF Len(parts) > 2
                     THEN SubSeq(parts, Len(parts) - 1, Len(parts))
                     ELSE parts
        slot == Append(walked.parent, terminals[1])
    IN  IF walked.err # "nil" THEN [m |-> walked.m, err |-> walked.err]
        ELSE IF Len(terminals) = 1
        THEN IF slot \in DOMAIN walked.m
             THEN IF walked.m[slot].t = "[]string"
                  THEN [m |-> walked.m, err |-> "nil"]
                  ELSE [m |-> walked.m, err |-> "name mismatch: not []string"]
             ELSE [m |-> Put(walked.m, slot, Strings(<<>>, FALSE)), err |-> "nil"]
        ELSE IF slot \in DOMAIN walked.m
             THEN IF walked.m[slot].t = "[]map[string]string"
                  THEN [m |-> walked.m, err |-> "nil"]
                  ELSE [m |-> walked.m,
                        err |-> "name mismatch: not []map[string]string"]
             ELSE [m |-> Put(walked.m, slot, Records(<<>>)), err |-> "nil"]

RECURSIVE prepareFrom(_, _, _)
prepareFrom(mm, names, i) ==
    IF i > Len(names) THEN [m |-> mm, err |-> "nil"]
    ELSE LET one == prepareName(mm, names[i])
         IN  IF one.err # "nil" THEN one ELSE prepareFrom(one.m, names, i + 1)

\* a prepare that returns from inside its loop, after the first name
prepareFirstName(mm, names) == prepareFrom(mm, SubSeq(names, 1, 1), 1)

\* prepare of src/README.md: the map is changed in place, also when an
\* error is returned
prepare(mm, names) == prepareFrom(mm, names, 1)

\* addValues, the loop of lines 317-319: parent[s].(map[string]any) panics
\* when the key is missing or holds something else
RECURSIVE addChain(_, _, _, _)
addChain(mm, parts, parent, i) ==
    IF i > Len(parts) - 2 THEN [parent |-> parent, panic |-> FALSE]
    ELSE LET p == Append(parent, parts[i])
         IN  IF p \in DOMAIN mm /\ mm[p].t = "map[string]any"
             THEN addChain(mm, parts, p, i + 1)
             ELSE [parent |-> parent, panic |-> TRUE]

\* an addValues that replaces the list by the new values
addStringsReplace(currVals, vals, i) == vals

\* addValues, the loop of lines 327-333 from value i on
RECURSIVE addStrings(_, _, _)
addStrings(currVals, vals, i) ==
    IF i > Len(vals) THEN currVals
    ELSE IF i <= Len(currVals)
         THEN addStrings([currVals EXCEPT ![i] = vals[i]], vals, i + 1)
         ELSE addStrings(Append(currVals, vals[i]), vals, i + 1)

\* a write that replaces the record by one holding the field alone
SetFieldFresh(o, field, x) == [f \in {field} |-> x]

\* objs[i][field] = v on a map[string]string
SetField(o, field, x) ==
    [f \in (DOMAIN o) \cup {field} |-> IF f = field THEN x ELSE o[f]]

\* an addValues that appends a new record for every value
RECURSIVE addFieldsAppend(_, _, _, _)
addFieldsAppend(objs, field, vals, i) ==
    IF i > Len(vals) THEN objs
    ELSE addFieldsAppend(Append(objs, [f \in {field} |-> vals[i]]), field, vals, i + 1)

\* addValues, the loop of lines 337-345 from value i on
RECURSIVE addFields(_, _, _, _)
addFields(objs, field, vals, i) ==
    IF i > Len(vals) THEN objs
    ELSE IF i <= Len(objs)
         THEN addFields([objs EXCEPT ![i] = SetField(@, field, vals[i])],
                        field, vals, i + 1)
         ELSE addFields(Append(objs, SetField(<<>>, field, vals[i])),
                        field, vals, i + 1)

\* addValues of src/README.md: [m, panic]
addValues(mm, name, vals) ==
    LET parts == Split(name, ".")
        walked == IF Len(parts) > 2
                  THEN addChain(mm, parts, <<>>, 1)
                  ELSE [parent |-> <<>>, panic |-> FALSE]
        terminals == IF Len(parts) > 2
                     THEN SubSeq(parts, Len(parts) - 1, Len(parts))
                     ELSE parts
        slot == Append(walked.parent, terminals[1])
    IN  IF walked.panic THEN [m |-> mm, panic |-> TRUE]
        ELSE IF Len(terminals) = 1
        THEN IF slot \in DOMAIN mm /\ mm[slot].t = "[]string"
             THEN [m |-> Put(mm, slot,
                             Strings(addStrings(mm[slot].v, vals, 1),
                                     mm[slot].isNil /\ Len(vals) = 0)),
                   panic |-> FALSE]
             ELSE [m |-> mm, panic |-> TRUE]
        ELSE IF slot \in DOMAIN mm /\ mm[slot].t = "[]map[string]string"
             THEN [m |-> Put(mm, slot,
                             Records(addFields(mm[slot].v, terminals[2], vals, 1))),
                   panic |-> FALSE]
             ELSE [m |-> mm, panic |-> TRUE]

\* printRecursively of src/README.md: whether it ends in log.Fatalf, which
\* it does on a value of any other type than the four it knows
printFatal(mm) ==
    \E p \in DOMAIN mm :
        mm[p].t \notin {"string", "[]string", "[]map[string]string", "map[string]any"}

\* --------------------------------------------------------------- rendering
\* A parsed -tmpl text, as the list of its nodes:
\*   "key"    {{.key|println}}
\*   "range"  {{range .a}}{{.|println}}{{end}}
\* (the templates of the usage comment, src/humphrey.go lines 21-22, for a
\* rule named a).  <<>> is the unset flag; a text holding "{{" alone does
\* not parse.
NoTmpl == <<>>
BadTmpl == <<"{{">>
KeyRangeTmpl == <<"key", "range">>
Tmpls == {NoTmpl, BadTmpl, KeyRangeTmpl}

\* template.New("output").Parse(*tmpl)
templateParse(tmpl) == IF "{{" \in {tmpl[i] : i \in 1..Len(tmpl)} THEN "template: parse" ELSE "nil"

RangeName == <<"a">>
Key == <<"k", "e", "y">>

\* t.Execute(os.Stdout, m) from node i on.  text/template writes each node's
\* output to the writer as it goes: an error stops it with what was written
\* before left on the writer.  range over a string is an error, over a nil
\* or missing value it does nothing.  badWriter: writes to os.Stdout fail.
RECURSIVE executeFrom(_, _, _, _, _)
executeFrom(nodes, mm, badWriter, i, written) ==
    IF i > Len(nodes) THEN [err |-> "nil", written |-> written]
    ELSE LET val == IF <<RangeName>> \in DOMAIN mm THEN mm[<<RangeName>>] ELSE NilValue
             chunks == IF nodes[i] = "key" THEN 1
                       ELSE IF val.t = "[]string" THEN Len(val.v) ELSE 0
         IN  IF nodes[i] = "range" /\ val.t = "string"
             THEN [err |-> "template: range can't iterate over string",
                   written |-> written]
             ELSE IF chunks > 0 /\ badWriter
             THEN [err |-> "template: write", written |-> written]
             ELSE executeFrom(nodes, mm, badWriter, i + 1, written + chunks)

execute(nodes, mm, badWriter) == executeFrom(nodes, mm, badWriter, 1, 0)

\* enc.Encode(m): the document is marshalled whole, then written once
encode(mm, badWriter) ==
    IF badWriter THEN [err |-> "json: write", written |-> 0]
    ELSE [err |-> "nil", written |-> 1]

\* encoding/json on one value: a nil interface and a nil slice are null
jsonOf(x) ==
    CASE x.t = "nil" -> "null"
      [] x.t = "string" -> "string"
      [] x.t = "map[string]any" -> "object"
      [] OTHER -> IF x.isNil THEN "null" ELSE "array"

\* what os.Stdout holds after a render of url u that wrote `written` chunks
\* and returned err: one entry per url something was written for
Written(out, u, r) ==
    IF r.err = "nil" THEN Append(out, [u |-> u, whole |-> TRUE])
    ELSE IF r.written > 0 THEN Append(out, [u |-> u, whole |-> FALSE])
    ELSE out

\* ------------------------------------------------------------------- mains
Segs == {"a", "b"}

\* rule names: dotted paths of up to MaxDepth segments, the nested ones
\* under a
NamePaths ==
    {p \in StringsUpTo(Segs, MaxDepth) : Len(p) >= 1 /\ (Len(p) > 1 => p[1] = "a")}

RECURSIVE Dotted(_)
Dotted(p) == IF Len(p) <= 1 THEN p ELSE <<Head(p), ".">> \o Dotted(Tail(p))

\* the arguments of src/README.md: name/s for every name, and one text
\* without a slash
ArgTexts3 == {Dotted(p) \o <<"/", "s">> : p \in NamePaths} \cup {<<"a">>}

\* the arguments of src/humphrey.go: a:s, b:s and one text without a colon
ArgTexts1 == {<<"a", ":", "s">>, <<"b", ":", "s">>, <<"a">>}

RECURSIVE ListsUpTo(_, _)
ListsUpTo(S, n) ==
    IF n = 0 THEN {<<>>}
    ELSE LET shorter == ListsUpTo(S, n - 1)
         IN  shorter \cup {Append(x, c) : x \in shorter, c \in S}

DefaultFlags == [strict |-> TRUE, arrays |-> TRUE, tmpl |-> NoTmpl]

ruleNames == [i \in 1..Len(rules) |-> rules[i].Name]

\* the url of input line u
Url(u) == <<0, u>>

Init ==
    /\ s = <<>> /\ res = NotCalled /\ variant = "main"
    /\ doc = <<>> /\ extracted = <<>>
    /\ prog \in {"humphrey.go", "README.md"}
    /\ pc = "args"
    /\ IF prog = "humphrey.go"
       THEN /\ flags \in [strict : BOOLEAN, arrays : BOOLEAN, tmpl : Tmpls]
            /\ args \in ListsUpTo(ArgTexts1, MaxRules)
       ELSE /\ flags = DefaultFlags
            /\ args \in ListsUpTo(ArgTexts3, MaxRules)
    /\ rules = <<>>
    /\ m = EmptyMap
    /\ counts = <<>>
    /\ outcome = <<>>
    /\ stdout = <<>>
    /\ stderr = ""
    /\ exit = -1

\* log.Fatal(e), usage(), a panic: the diagnostic and the exit status
Exit(e, status) ==
    /\ pc' = "exited"
    /\ stderr' = e
    /\ exit' = status

\* the rules before the first text that does not parse, and its error
BadArgs(errs) == {i \in 1..Len(errs) : errs[i].err # "nil"}
FirstBad(errs) == CHOOSE i \in BadArgs(errs) : \A j \in BadArgs(errs) : i <= j
ParsedBefore(errs, n) == [i \in 1..n |-> errs[i].rule]

\* src/humphrey.go main, lines 147-158
Main1ParseArgs ==
    /\ prog = "humphrey.go" /\ pc = "args"
    /\ LET got == [i \in 1..Len(args) |-> newRuleColon(args[i])]
       IN  IF Len(args) = 0
           THEN Exit("usage", 2) /\ UNCHANGED rules
           ELSE IF BadArgs(got) # {}
           THEN /\ Exit(got[FirstBad(got)].err, 1)
                /\ rules' = ParsedBefore(got, FirstBad(got) - 1)
           ELSE /\ rules' = ParsedBefore(got, Len(got))
                /\ pc' = "tmpl"
                /\ UNCHANGED <<stderr, exit>>
    /\ UNCHANGED <<doc, extracted, s, res, variant, prog, flags, args, m, counts, outcome, stdout>>

\* src/humphrey.go main, lines 160-174
Main1ParseTmpl ==
    /\ prog = "humphrey.go" /\ pc = "tmpl"
    /\ IF flags.tmpl # NoTmpl /\ templateParse(flags.tmpl) # "nil"
       THEN Exit(templateParse(flags.tmpl), 1)
       ELSE pc' = "scan" /\ UNCHANGED <<stderr, exit>>
    /\ UNCHANGED <<doc, extracted, s, res, variant, prog, flags, args, rules, m, counts, outcome, stdout>>

\* downloadAndApplyRules, src/humphrey.go lines 107-124, for a document in
\* which rule k matches ns[k] elements; got is how download and the html
\* parser ended
downloadAndApplyRules(got, rs, ns, as_array) ==
    IF got # "ok" THEN [m |-> EmptyMap, err |-> got]
    ELSE [m |-> applyFrom(rs, ns, EmptyMap, as_array, 1), err |-> "nil"]

\* a main that stops at a failing url whatever -strict says
OnUrlErrorAlwaysFatal(e) == Exit(e, 1)

\* what main does with an error of downloadAndApplyRules, lines 199-203
OnUrlError(e) ==
    IF flags.strict
    THEN Exit(e, 1)
    ELSE UNCHANGED <<pc, stderr, exit>>

\* src/humphrey.go main, one round of the loop of lines 185-204: a line is
\* read, its url fetched, the rules applied and the result rendered
Main1Url ==
    /\ prog = "humphrey.go" /\ pc = "scan"
    /\ Len(outcome) < MaxUrls
    /\ \E got \in {"ok", "download failed", "html parse failed"},
          ns \in [1..Len(rules) -> 0..MaxMatches],
          badWriter \in BOOLEAN :
        LET u == Len(outcome) + 1
            r == downloadAndApplyRules(got, rules, ns, flags.arrays)
            mk == Put(r.m, <<Key>>, StringValue(Url(u)))
            w == IF flags.tmpl # NoTmpl
                 THEN execute(flags.tmpl, mk, badWriter)
                 ELSE encode(mk, badWriter)
        IN  IF r.err # "nil"
            THEN /\ ns = [k \in 1..Len(rules) |-> 0] /\ ~badWriter
                 /\ m' = r.m
                 /\ counts' = <<>>
                 /\ outcome' = Append(outcome, r.err)
                 /\ OnUrlError(r.err)
                 /\ UNCHANGED stdout
            ELSE /\ m' = mk
                 /\ counts' = ns
                 /\ stdout' = Written(stdout, u, w)
                 /\ IF w.err = "nil"
                    THEN /\ outcome' = Append(outcome, "ok")
                         /\ UNCHANGED <<pc, stderr, exit>>
                    ELSE /\ outcome' = Append(outcome, "render failed")
                         /\ Exit(w.err, 1)
    /\ UNCHANGED <<doc, extracted, s, res, variant, prog, flags, args, rules>>

\* src/humphrey.go main, lines 185 and 205-208: scanner.Scan() returns
\* false, at the end of the input or on a read error
Main1Eof ==
    /\ prog = "humphrey.go" /\ pc = "scan"
    /\ \E readError \in BOOLEAN :
        IF readError
        THEN Exit("reading standard input", 1)
        ELSE Exit("", 0)
    /\ UNCHANGED <<doc, extracted, s, res, variant, prog, flags, args, rules, m, counts, outcome, stdout>>

\* src/README.md main, lines 198-212: the last argument is the page
Main3ParseArgs ==
    /\ prog = "README.md" /\ pc = "args"
    /\ LET got == [i \in 1..Len(args) |-> newRule(args[i])]
       IN  IF Len(args) + 1 < 2
           THEN Exit("usage", 2) /\ UNCHANGED rules
           ELSE IF BadArgs(got) # {}
           THEN /\ Exit(got[FirstBad(got)].err, 1)
                /\ rules' = ParsedBefore(got, FirstBad(got) - 1)
           ELSE /\ rules' = ParsedBefore(got, Len(got))
                /\ pc' = "prepare"
                /\ UNCHANGED <<stderr, exit>>
    /\ UNCHANGED <<doc, extracted, s, res, variant, prog, flags, args, m, counts, outcome, stdout>>

\* a main that goes on after prepare's error
Main3PrepareUnchecked ==
    /\ prog = "README.md" /\ pc = "prepare"
    /\ m' = prepare(EmptyMap, ruleNames).m
    /\ pc' = "download"
    /\ UNCHANGED <<doc, extracted, s, res, variant, prog, flags, args, rules, counts, outcome, stdout,
                   stderr, exit>>

\* src/README.md main, lines 214-217
Main3Prepare ==
    /\ prog = "README.md" /\ pc = "prepare"
    /\ LET r == prepare(EmptyMap, ruleNames)
       IN  /\ m' = r.m
           /\ IF r.err # "nil"
              THEN Exit(r.err, 1)
              ELSE pc' = "download" /\ UNCHANGED <<stderr, exit>>
    /\ UNCHANGED <<doc, extracted, s, res, variant, prog, flags, args, rules, counts, outcome, stdout>>

\* applyRules of src/README.md, lines 162-170, and main's lines 218-220
Main3Download ==
    /\ prog = "README.md" /\ pc = "download"
    /\ \E got \in {"ok", "download failed", "html parse failed"} :
        IF got = "ok"
        THEN /\ outcome' = Append(outcome, "fetched")
             /\ pc' = "apply"
             /\ UNCHANGED <<stderr, exit>>
        ELSE /\ outcome' = Append(outcome, got)
             /\ Exit(got, 1)
    /\ UNCHANGED <<doc, extracted, s, res, variant, prog, flags, args, rules, m, counts, stdout>>

\* rule.apply of src/README.md, lines 114-130, for the next rule of
\* applyRules' loop (lines 172-174): its selector matches n elements
Main3Apply ==
    /\ prog = "README.md" /\ pc = "apply"
    /\ Len(counts) < Len(rules)
    /\ \E n \in 0..MaxMatches :
        LET k == Len(counts) + 1
            r == addValues(m, rules[k].Name, Vals(k, n))
        IN  /\ counts' = Append(counts, n)
            /\ m' = r.m
            /\ IF r.panic
               THEN /\ Exit("panic: interface conversion", 2)
                    /\ outcome' = [outcome EXCEPT ![Len(outcome)] = "panic"]
               ELSE UNCHANGED <<pc, stderr, exit, outcome>>
    /\ UNCHANGED <<doc, extracted, s, res, variant, prog, flags, args, rules, stdout>>

\* src/README.md main, lines 221-232: the page is stored under the key and
\* the map printed, as text (-r) or as json
Main3Output ==
    /\ prog = "README.md" /\ pc = "apply"
    /\ Len(counts) = Len(rules)
    /\ \E rawOutput \in BOOLEAN, badWriter \in BOOLEAN :
        LET mk == Put(m, <<Key>>, StringValue(Url(1)))
            w == IF rawOutput
                 THEN IF printFatal(mk)
                      THEN [err |-> "key has map type", written |-> 0]
                      ELSE [err |-> "nil", written |-> 1]
                 ELSE encode(mk, badWriter)
        IN  /\ m' = mk
            /\ stdout' = Written(stdout, 1, w)
            /\ IF w.err = "nil"
               THEN /\ outcome' = [outcome EXCEPT ![Len(outcome)] = "ok"]
                    /\ Exit("", 0)
               ELSE /\ outcome' = [outcome EXCEPT ![Len(outcome)] = "render failed"]
                    /\ Exit(w.err, 1)
    /\ UNCHANGED <<doc, extracted, s, res, variant, prog, flags, args, rules, counts>>

\* src/humphrey.go
NextHumphrey ==
    \/ Main1ParseArgs
    \/ Main1ParseTmpl
    \/ Main1Url
    \/ Main1Eof

\* src/README.md
NextNested ==
    \/ Main3ParseArgs
    \/ Main3Prepare
    \/ Main3Download
    \/ Main3Apply
    \/ Main3Output

Next == NextHumphrey \/ NextNested

InitHumphrey == Init /\ prog = "humphrey.go"
InitNested == Init /\ prog = "README.md"

\* either program
Spec == Init /\ [][Next]_vars

SpecHumphrey == InitHumphrey /\ [][NextHumphrey]_vars

SpecNested == InitNested /\ [][NextNested]_vars

\* ---------------------------------------------------------------- SpecRule
\* newRule as a function of its argument: any text up to MaxArgLen
InitRule ==
    /\ s \in StringsUpTo(Chars, MaxArgLen)
    /\ doc = <<>> /\ extracted = <<>>
    /\ res = NotCalled
    /\ variant = ""
    /\ prog = "newRule" /\ pc = "exited" /\ flags = DefaultFlags
    /\ args = <<>> /\ rules = <<>> /\ m = EmptyMap /\ counts = <<>>
    /\ outcome = <<>> /\ stdout = <<>> /\ stderr = "" /\ exit = -1

CallNewRule ==
    /\ variant = ""
    /\ res' = newRule(s)
    /\ variant' = "README.md"
    /\ UNCHANGED <<doc, extracted, s, mainVars>>

CallNewRuleColon ==
    /\ variant = ""
    /\ res' = newRuleColon(s)
    /\ variant' = "humphrey.go"
    /\ UNCHANGED <<doc, extracted, s, mainVars>>

CallNewRuleSplitN ==
    /\ variant = ""
    /\ res' = newRuleSplitN(s)
    /\ variant' = "part_001"
    /\ UNCHANGED <<doc, extracted, s, mainVars>>

NextRule == CallNewRule \/ CallNewRuleColon \/ CallNewRuleSplitN

SpecRule == InitRule /\ [][NextRule]_vars

\* ----------------------------------------------------------- rule.apply
\* An element of the parsed document: whether the rule's selector matches
\* it, its text (s.Text()), and the attribute the rule names (s.Attr gives
\* attr and has)
Element(match, text, has, attr) ==
    [match |-> match, text |-> text, has |-> has, attr |-> attr]

RawChars == {" ", "&", "#", "9", ";"}
Raws == StringsUpTo(RawChars, MaxRawLen)
SmallRaws == {<<>>, <<" ", "9">>}

\* one element with any text or any attribute value
RichElements ==
    {Element(b, x, FALSE, <<>>) : b \in BOOLEAN, x \in Raws}
      \cup {Element(b, <<>>, TRUE, x) : b \in BOOLEAN, x \in Raws}

SmallElements ==
    {Element(b, x, FALSE, <<>>) : b \in BOOLEAN, x \in SmallRaws}
      \cup {Element(b, x, TRUE, y) : b \in BOOLEAN, x \in SmallRaws, y \in SmallRaws}

\* the documents: one element of any content, or up to MaxElems elements of
\* little content
Docs == {<<e>> : e \in RichElements} \cup ListsUpTo(SmallElements, MaxElems)

\* doc.Find(r.Selector): the matching elements, in document order
Find(d) == SelectSeq(d, LAMBDA e : e.match)

\* Each with the two conversions in the other order
RECURSIVE EachUnescapeFirst(_, _, _, _)
EachUnescapeFirst(r, sel, i, acc) ==
    IF i > Len(sel) THEN acc
    ELSE LET el == sel[i]
             val == IF r.Attribute = <<>> THEN el.text
                    ELSE IF el.has THEN el.attr
                    ELSE <<>>
         IN  EachUnescapeFirst(r, sel, i + 1,
                               Append(acc, TrimSpace(UnescapeString(val))))

\* the Each of rule.apply, src/humphrey.go lines 58-68 and src/README.md
\* lines 117-127: the callback runs on the selection from element i on
RECURSIVE Each(_, _, _, _)
Each(r, sel, i, acc) ==
    IF i > Len(sel) THEN acc
    ELSE LET el == sel[i]
             val == IF r.Attribute = <<>> THEN el.text
                    ELSE IF el.has THEN el.attr
                    ELSE <<>>
         IN  Each(r, sel, i + 1, Append(acc, UnescapeString(TrimSpace(val))))

ApplyRules == {Rule(<<"a">>, <<"s">>, <<>>), Rule(<<"a">>, <<"s">>, <<"h">>)}

InitApply ==
    /\ doc \in Docs
    /\ extracted = <<>>
    /\ s = <<>> /\ res = NotCalled /\ variant = ""
    /\ prog = "apply" /\ pc = "exited"
    /\ flags \in {[DefaultFlags EXCEPT !.arrays = b] : b \in BOOLEAN}
    /\ args = <<>>
    /\ rules \in {<<r>> : r \in ApplyRules}
    /\ m = EmptyMap /\ counts = <<>>
    /\ outcome = <<>> /\ stdout = <<>> /\ stderr = "" /\ exit = -1

\* rule.apply of src/humphrey.go
ApplyColon ==
    /\ variant = ""
    /\ LET vs == Each(rules[1], Find(doc), 1, <<>>)
       IN  /\ extracted' = vs
           /\ m' = apply(rules[1], vs, m, flags.arrays)
    /\ variant' = "humphrey.go"
    /\ counts' = <<Len(Find(doc))>>
    /\ UNCHANGED <<doc, s, res, prog, pc, flags, args, rules, outcome, stdout, stderr, exit>>

\* rule.apply of src/README.md, on the map that prepare made for the rule
ApplyNested ==
    /\ variant = ""
    /\ LET vs == Each(rules[1], Find(doc), 1, <<>>)
       IN  /\ extracted' = vs
           /\ m' = addValues(prepare(m, ruleNames).m, rules[1].Name, vs).m
    /\ variant' = "README.md"
    /\ counts' = <<Len(Find(doc))>>
    /\ UNCHANGED <<doc, s, res, prog, pc, flags, args, rules, outcome, stdout, stderr, exit>>

NextApply == ApplyColon \/ ApplyNested

SpecApply == InitApply /\ [][NextApply]_vars

\* ------------------------------------------------- claims about newRule
\* the places of the delimiter d in x, and the text between them
Delims(x, d) == {i \in 1..Len(x) : x[i] = d}

NumDelims(x, d) == Cardinality(Delims(x, d))

\* the place of the j-th delimiter; 0 before the first, Len(x) + 1 after the last
DelimAt(x, d, j) ==
    IF j = 0 THEN 0
    ELSE IF j > NumDelims(x, d) THEN Len(x) + 1
    ELSE CHOOSE p \in Delims(x, d) : Cardinality({q \in Delims(x, d) : q <= p}) = j

\* the j-th part of x: the text between delimiter j - 1 and delimiter j
Piece(x, d, j) == SubSeq(x, DelimAt(x, d, j - 1) + 1, DelimAt(x, d, j) - 1)

NonBlank(x) == \E i \in 1..Len(x) : x[i] # " "

\* t is x without its surrounding white space
IsTrimOf(t, x) ==
    \E i \in 1..(Len(x) + 1), j \in 0..Len(x) :
        /\ t = SubSeq(x, i, j)
        /\ \A k \in 1..Len(x) : (k < i \/ k > j) => x[k] = " "
        /\ t # <<>> => (t[1] # " " /\ t[Len(t)] # " ")

Called(v) == variant = v

\* C5 as stated: with exactly one "/" the text parses to a rule without
\* attribute, with exactly two to the three trimmed parts, and with none or
\* more than two it fails and yields no rule.
C5_ArityAsStated ==
    Called("README.md") =>
        /\ NumDelims(s, "/") = 1 =>
            (res.err = "nil" /\ res.rule.Attribute = <<>>)
        /\ NumDelims(s, "/") = 2 =>
            /\ res.err = "nil"
            /\ IsTrimOf(res.rule.Name, Piece(s, "/", 1))
            /\ IsTrimOf(res.rule.Selector, Piece(s, "/", 2))
            /\ IsTrimOf(res.rule.Attribute, Piece(s, "/", 3))
        /\ NumDelims(s, "/") \notin {1, 2} =>
            (res.err # "nil" /\ res.rule = NoRule)

\* C5 amended: the same for a text whose name and selector parts are not
\* blank; a text with one or two "/" and a blank name or selector fails.
C5_Arity ==
    Called("README.md") =>
        LET n == NumDelims(s, "/")
            filled == NonBlank(Piece(s, "/", 1)) /\ NonBlank(Piece(s, "/", 2))
        IN  /\ (n = 1 /\ filled) =>
                (res.err = "nil" /\ res.rule.Attribute = <<>>)
            /\ (n = 2 /\ filled) =>
                /\ res.err = "nil"
                /\ IsTrimOf(res.rule.Name, Piece(s, "/", 1))
                /\ IsTrimOf(res.rule.Selector, Piece(s, "/", 2))
                /\ IsTrimOf(res.rule.Attribute, Piece(s, "/", 3))
            /\ (n \notin {1, 2} \/ ~filled) =>
                (res.err # "nil" /\ res.rule = NoRule)

\* a text with two "/" parsed to three parts, the name having lost white space
C5_Witness ==
    /\ Called("README.md")
    /\ NumDelims(s, "/") = 2
    /\ res.err = "nil"
    /\ res.rule.Name # Piece(s, "/", 1)
    /\ res.rule.Attribute # <<>>

\* the delimiter of each generation of newRule
DelimOf(v) == IF v = "humphrey.go" THEN ":" ELSE "/"

\* C6: every rule newRule returns has a name and a selector that are not
\* blank, and a text whose name part or selector part is blank is rejected.
C6_RuleInvariant ==
    variant # "" =>
        /\ res.err = "nil" =>
            (NonBlank(res.rule.Name) /\ NonBlank(res.rule.Selector))
        /\ (~NonBlank(Piece(s, DelimOf(variant), 1))
              \/ ~NonBlank(Piece(s, DelimOf(variant), 2))) => res.err # "nil"

\* C6 for the newRule of src/README.md alone, where the check is written
C6_SlashVariantChecks ==
    Called("README.md") /\ res.err = "nil" =>
        (NonBlank(res.rule.Name) /\ NonBlank(res.rule.Selector))

\* ------------------------------------------- claims about src/humphrey.go
IsHumphrey == prog = "humphrey.go"
Exited == pc = "exited"

ConfigErrors == {"usage", "can't parse rule", "empty parts", "template: parse",
                 "name mismatch: not map[string]any", "name mismatch: not []string",
                 "name mismatch: not []map[string]string"}

FetchErrors == {"download failed", "html parse failed"}

IoErrors == {"reading standard input", "json: write", "template: write"}

\* main of src/humphrey.go has reached its loop over the input lines
Started == IsHumphrey /\ pc \in {"scan", "exited"} /\ stderr \notin ConfigErrors

\* the urls (by input line) processed without error, in input order, and the
\* urls os.Stdout holds a whole document of, in output order
Lines == [i \in 1..Len(outcome) |-> i]
OkUrls == SelectSeq(Lines, LAMBDA i : outcome[i] = "ok")
WholeDocs == SelectSeq(stdout, LAMBDA e : e.whole)
WholeUrls == [i \in 1..Len(WholeDocs) |-> WholeDocs[i].u]
LastOutcome == IF outcome = <<>> THEN "none" ELSE outcome[Len(outcome)]

\* C1 as stated: under -strict the run ends non-zero at the first url whose
\* fetch or parse fails, with one document for every url before it; under
\* -strict=false a failing url writes nothing, the loop goes on, the output
\* holds one document per succeeding url in input order and the run exits 0.
\* (Runs ended by a failing read of the input or a failing write to
\* os.Stdout are left aside.)
C1_ErrorPolicyAsStated ==
    (Started /\ stderr \notin IoErrors) =>
        /\ \A i \in 1..Len(stdout) : outcome[stdout[i].u] \notin FetchErrors
        /\ flags.strict =>
            /\ (Exited /\ exit # 0) => LastOutcome \in FetchErrors
            /\ \A i \in 1..(Len(outcome) - 1) : outcome[i] \notin FetchErrors
            /\ [i \in 1..Len(stdout) |-> stdout[i].u]
                 = SelectSeq(Lines, LAMBDA i : outcome[i] \notin FetchErrors)
        /\ ~flags.strict =>
            /\ Exited => exit = 0
            /\ [i \in 1..Len(stdout) |-> stdout[i].u]
                 = SelectSeq(Lines, LAMBDA i : outcome[i] \notin FetchErrors)
            /\ \A i \in 1..Len(stdout) : stdout[i].whole

\* C1 amended: the whole documents on os.Stdout are exactly one per url that
\* was fetched, parsed and rendered without error, in input order, and a url
\* whose fetch or parse failed has written nothing.  Under -strict the run
\* ends with status 1 at the first url whose fetch, parse or rendering
\* fails and no later url is processed.  Under -strict=false a url whose
\* fetch or parse fails is skipped and the loop goes on; the run exits 0
\* unless a rendering (template execution or json encoding) error or a read
\* error of the input ends it with status 1.
C1_ErrorPolicy ==
    Started =>
        /\ WholeUrls = OkUrls
        /\ \A i \in 1..Len(stdout) : outcome[stdout[i].u] \in {"ok", "render failed"}
        /\ \A i \in 1..(Len(outcome) - 1) :
            /\ outcome[i] # "render failed"
            /\ flags.strict => outcome[i] = "ok"
        /\ (LastOutcome = "render failed" \/ (flags.strict /\ LastOutcome \in FetchErrors))
             => (Exited /\ exit = 1 /\ stderr # "" /\ stderr # "reading standard input")
        /\ (~flags.strict /\ LastOutcome \in FetchErrors)
             => (pc = "scan" \/ stderr \in {"", "reading standard input"})
        /\ ~flags.strict => stderr \notin FetchErrors
        /\ Exited =>
            (exit = 0 <=> /\ \A i \in 1..Len(outcome) : outcome[i] # "render failed"
                          /\ stderr # "reading standard input"
                          /\ flags.strict => \A i \in 1..Len(outcome) : outcome[i] = "ok")
        /\ Exited => exit \in {0, 1}

\* a lenient run skipped a failing first url, wrote the second url's
\* document and exited 0
C1_Witness ==
    /\ IsHumphrey /\ ~flags.strict /\ Exited /\ exit = 0
    /\ Len(outcome) = 2
    /\ outcome[1] \in FetchErrors /\ outcome[2] = "ok"
    /\ stdout = <<[u |-> 2, whole |-> TRUE]>>

\* the rules whose value the map holds: no later rule has the same name
Stored(k) == \A j \in (k + 1)..Len(rules) : rules[j].Name # rules[k].Name

\* C2: with -arrays off the value under a rule's name is null for no match,
\* the bare string for one match and the list of the n strings for n > 1
\* matches; with -arrays on it is always the list of the n strings, the
\* empty list and not null for no match.
C2_Multiplicity ==
    (IsHumphrey /\ LastOutcome \in {"ok", "render failed"}) =>
        \A k \in 1..Len(rules) : Stored(k) =>
            LET x == m[<<rules[k].Name>>]
                n == counts[k]
            IN  IF flags.arrays
                THEN x.t = "[]string" /\ x.v = Vals(k, n) /\ jsonOf(x) = "array"
                ELSE CASE n = 0 -> jsonOf(x) = "null"
                       [] n = 1 -> x = StringValue(Val(k, 1))
                       [] OTHER -> x.t = "[]string" /\ x.v = Vals(k, n)
                                     /\ jsonOf(x) = "array"

\* what the code does: as C2, but with -arrays on and no match the value is
\* the nil slice, which encoding/json writes as null
C2_MultiplicityAsCoded ==
    (IsHumphrey /\ LastOutcome \in {"ok", "render failed"}) =>
        \A k \in 1..Len(rules) : Stored(k) =>
            LET x == m[<<rules[k].Name>>]
                n == counts[k]
            IN  IF flags.arrays
                THEN x.t = "[]string" /\ x.v = Vals(k, n)
                       /\ jsonOf(x) = (IF n = 0 THEN "null" ELSE "array")
                ELSE CASE n = 0 -> jsonOf(x) = "null"
                       [] n = 1 -> x = StringValue(Val(k, 1))
                       [] OTHER -> x.t = "[]string" /\ x.v = Vals(k, n)
                                     /\ jsonOf(x) = "array"

\* C7: a url whose processing ended in an error (fetch, parse, template
\* execution) has written nothing to os.Stdout.
C7_NoPartialOutput ==
    \A i \in 1..Len(stdout) :
        outcome[stdout[i].u] \notin (FetchErrors \cup {"render failed", "panic"})

\* --------------------------------------------- claims about src/README.md
IsNested == prog = "README.md"

\* the parts of a dotted name, the slot its values go to and the field of
\* the slot's records it writes (none for a name of one part)
PartsOf(name) == [j \in 1..(NumDelims(name, ".") + 1) |-> Piece(name, ".", j)]
SlotOf(name) ==
    LET parts == PartsOf(name)
    IN  IF Len(parts) = 1 THEN parts ELSE SubSeq(parts, 1, Len(parts) - 1)
HasField(name) == Len(PartsOf(name)) >= 2
FieldOf(name) == LET parts == PartsOf(name) IN parts[Len(parts)]

\* the shapes a name needs: nested maps down to its slot, there a list of
\* strings (one terminal) or a list of records (two terminals)
Needs(name) ==
    LET parts == PartsOf(name)
        n == Len(parts)
    IN  {<<SubSeq(parts, 1, j), "map[string]any">> : j \in 1..(n - 2)}
          \cup {<<IF n = 1 THEN parts ELSE SubSeq(parts, 1, n - 1),
                  IF n = 1 THEN "[]string" ELSE "[]map[string]string">>}

Clash(a, b) == \E x \in Needs(a), y \in Needs(b) : x[1] = y[1] /\ x[2] # y[2]

\* two names of the list need different shapes at the same path
Conflict(names) ==
    LET all == UNION {Needs(names[i]) : i \in 1..Len(names)}
    IN  \E x \in all, y \in all : x[1] = y[1] /\ x[2] # y[2]

Touches(name, p) == \E x \in Needs(name) : x[1] = p

NameMismatch == {"name mismatch: not map[string]any", "name mismatch: not []string",
                 "name mismatch: not []map[string]string"}

\* main of src/README.md has just called prepare
Prepared ==
    /\ IsNested
    /\ pc \in {"download", "exited"}
    /\ outcome = <<>>
    /\ stderr \notin {"usage", "can't parse rule", "empty parts"}

\* the paths that prepare made
PreparedPaths == DOMAIN m

\* C4: prepare takes the names in order, the first name touching a path
\* fixes the shape there, a later name needing another shape at that path
\* makes prepare fail with a name mismatch, no name changes a slot that
\* exists, and names that agree give no error.
C4_ShapeCompatibility ==
    Prepared =>
        /\ stderr \in NameMismatch <=> Conflict(ruleNames)
        /\ \A p \in PreparedPaths :
            \E i \in 1..Len(rules) :
                /\ <<p, m[p].t>> \in Needs(rules[i].Name)
                /\ \A j \in 1..(i - 1) : ~Touches(rules[j].Name, p)
        /\ ~Conflict(ruleNames) =>
            \A i \in 1..Len(rules) : \A x \in Needs(rules[i].Name) :
                x[1] \in PreparedPaths /\ m[x[1]].t = x[2]
        /\ \A j \in 1..Len(rules) :
            LET before == prepare(EmptyMap, SubSeq(ruleNames, 1, j - 1))
                after == prepareName(before.m, rules[j].Name)
            IN  /\ \A p \in DOMAIN before.m :
                    p \in DOMAIN after.m /\ after.m[p] = before.m[p]
                /\ (before.err = "nil" /\ after.err # "nil") <=>
                    (/\ ~Conflict(SubSeq(ruleNames, 1, j - 1))
                     /\ \E i \in 1..(j - 1) : Clash(rules[i].Name, rules[j].Name))

\* prepare has refused a.b.a after a.b: a is a list of records, not a map
C4_Witness ==
    /\ IsNested /\ Exited /\ exit = 1
    /\ stderr = "name mismatch: not map[string]any"
    /\ Len(rules) = 2
    /\ HasField(rules[1].Name)
    /\ m[SlotOf(rules[1].Name)].t = "[]map[string]string"

\* all rules have been applied to the document
AllApplied == IsNested /\ pc = "apply" /\ Len(counts) = Len(rules)

\* rules j and k write two fields of the records of one slot, and no other
\* rule writes there
Paired(j, k) ==
    /\ j # k
    /\ HasField(rules[j].Name) /\ HasField(rules[k].Name)
    /\ LET slot == SlotOf(rules[j].Name)
       IN  /\ slot = SlotOf(rules[k].Name)
           /\ FieldOf(rules[j].Name) # FieldOf(rules[k].Name)
           /\ \A i \in 1..Len(rules) : SlotOf(rules[i].Name) = slot => i \in {j, k}

\* C3: two rules a.x and a.y that match n elements each leave, in either
\* order, a list of exactly n records under a, record i holding x, the i-th
\* value of a.x, and y, the i-th value of a.y, and nothing else.
C3_RecordPairing ==
    AllApplied =>
        \A j, k \in 1..Len(rules) : (Paired(j, k) /\ counts[j] = counts[k]) =>
            LET slot == m[SlotOf(rules[j].Name)]
                x == FieldOf(rules[j].Name)
                y == FieldOf(rules[k].Name)
            IN  /\ slot.t = "[]map[string]string"
                /\ Len(slot.v) = counts[j]
                /\ \A i \in 1..counts[j] :
                    /\ DOMAIN slot.v[i] = {x, y}
                    /\ slot.v[i][x] = Val(j, i)
                    /\ slot.v[i][y] = Val(k, i)

\* a.b was applied before a.a, MaxMatches matches each
C3_Witness ==
    /\ AllApplied /\ Len(rules) = 2 /\ Paired(1, 2)
    /\ FieldOf(rules[1].Name) = <<"b">>
    /\ counts = <<MaxMatches, MaxMatches>>
    /\ Len(m[SlotOf(rules[1].Name)].v) = MaxMatches

\* C10: two rules a.x and a.y that match nx and ny elements leave, in either
\* order, exactly max(nx, ny) records; record i holds x iff i <= nx and y
\* iff i <= ny, each with the value its rule extracted, and no other field.
C10_UnequalCounts ==
    AllApplied =>
        \A j, k \in 1..Len(rules) : Paired(j, k) =>
            LET slot == m[SlotOf(rules[j].Name)]
                x == FieldOf(rules[j].Name)
                y == FieldOf(rules[k].Name)
            IN  /\ slot.t = "[]map[string]string"
                /\ Len(slot.v) = Max(counts[j], counts[k])
                /\ \A i \in 1..Len(slot.v) :
                    /\ DOMAIN slot.v[i] \subseteq {x, y}
                    /\ x \in DOMAIN slot.v[i] <=> i <= counts[j]
                    /\ y \in DOMAIN slot.v[i] <=> i <= counts[k]
                    /\ i <= counts[j] => slot.v[i][x] = Val(j, i)
                    /\ i <= counts[k] => slot.v[i][y] = Val(k, i)

\* the second rule matched more elements than the first: the last record
\* holds the second rule's field alone
C10_Witness ==
    /\ AllApplied /\ Len(rules) = 2 /\ Paired(1, 2)
    /\ counts[1] < counts[2] /\ counts[1] > 0
    /\ DOMAIN m[SlotOf(rules[1].Name)].v[counts[2]] = {FieldOf(rules[2].Name)}

\* one call of addValues for a name of one part: the step of Main3Apply
\* that applies rule k without a panic
AppliesOnePart(k) ==
    /\ IsNested /\ pc = "apply" /\ pc' = "apply"
    /\ k = Len(counts) + 1 /\ Len(counts') = k
    /\ ~HasField(rules[k].Name)

\* C9: addValues on a slot of strings holding L with the values V leaves a
\* list of length max(|L|, |V|) that is V on 1..|V| and L after; so two
\* rules of one name with V1 then V2 leave max(|V1|, |V2|) strings, the
\* later rule's on the common prefix.
C9_PositionalOverwrite ==
    [][\A k \in 1..Len(rules) : AppliesOnePart(k) =>
          LET slot == SlotOf(rules[k].Name)
              L == m[slot].v
              V == Vals(k, counts'[k])
              R == m'[slot].v
          IN  /\ m[slot].t = "[]string" /\ m'[slot].t = "[]string"
              /\ Len(R) = Max(Len(L), Len(V))
              /\ \A i \in 1..Len(R) : R[i] = (IF i <= Len(V) THEN V[i] ELSE L[i])
              /\ \A p \in DOMAIN m : p # slot => m'[p] = m[p]
              /\ DOMAIN m' = DOMAIN m]_vars

\* two rules of one name: the second matched one element, the first two
C9_Witness ==
    /\ AllApplied /\ Len(rules) = 2
    /\ rules[1].Name = rules[2].Name /\ ~HasField(rules[1].Name)
    /\ counts = <<2, 1>>
    /\ m[SlotOf(rules[1].Name)].v = <<Val(2, 1), Val(1, 2)>>

\* ---------------------------------------------- claims about both mains
\* an argument the program's newRule returns an error for
Malformed(x) ==
    IF IsHumphrey THEN newRuleColon(x).err # "nil" ELSE newRule(x).err # "nil"

MalformedArgs == \E i \in 1..Len(args) : Malformed(args[i])

\* the names of the arguments, all well formed
ArgNames == [i \in 1..Len(args) |-> TrimSpace(Piece(args[i], "/", 1))]

BadConfig ==
    \/ IsHumphrey /\ flags.tmpl = BadTmpl
    \/ MalformedArgs
    \/ IsNested /\ Conflict(ArgNames)

\* C8: a malformed rule, a template that does not parse or a clash of rule
\* names ends the process with a non-zero status before any url is fetched
\* and before anything is written, whatever -strict says; and a template
\* execution error ends it too under -strict=false.
C8_ConfigErrorsFatal ==
    /\ BadConfig =>
        /\ outcome = <<>> /\ stdout = <<>>
        /\ pc \in {"args", "tmpl", "prepare", "exited"}
        /\ Exited => (exit # 0 /\ stderr \in ConfigErrors)
        /\ MalformedArgs => pc \in {"args", "exited"}
    /\ stderr \in ConfigErrors => (Exited /\ exit # 0 /\ outcome = <<>> /\ stdout = <<>>)
    /\ LastOutcome = "render failed" => (Exited /\ exit # 0)

\* -strict=false, and the template does not parse: status 1, nothing fetched
C8_Witness ==
    /\ IsHumphrey /\ ~flags.strict /\ flags.tmpl = BadTmpl
    /\ Exited /\ exit = 1 /\ stderr = "template: parse"
    /\ outcome = <<>> /\ stdout = <<>>


\* ------------------------------------------------ claims about rule.apply
Applied == prog = "apply" /\ variant # ""

\* the raw value of an element: the attribute value if the rule asks for an
\* attribute and the element has it, nothing if it asks and the element has
\* none, the text of the element if it asks for none
Raw(r, e) ==
    IF r.Attribute = <<>> THEN e.text
    ELSE IF e.has THEN e.attr
    ELSE <<>>

NoOuterSpace(t) == t = <<>> \/ (t[1] \notin Space /\ t[Len(t)] \notin Space)

\* t is x without its leading and trailing white space
IsWsTrimOf(t, x) ==
    /\ NoOuterSpace(t)
    /\ \E i \in 1..(Len(x) + 1), j \in 0..Len(x) :
        /\ t = SubSeq(x, i, j)
        /\ \A k \in 1..Len(x) : (k < i \/ k > j) => x[k] \in Space

\* how many of the first i elements of the document the selector matches
Rank(i) == Cardinality({k \in 1..i : doc[k].match})

\* one string per matched element, in document order, each related to the
\* raw value of its element by Conv
OnePerMatch(Conv(_, _)) ==
    /\ Len(extracted) = Rank(Len(doc))
    /\ \A i \in 1..Len(doc) :
        doc[i].match => Conv(extracted[Rank(i)], Raw(rules[1], doc[i]))

UnescapedThenTrimmed(v, raw) == IsWsTrimOf(v, UnescapeString(raw))

TrimmedThenUnescaped(v, raw) ==
    \E i \in 1..(Len(raw) + 1), j \in 0..Len(raw) :
        /\ IsWsTrimOf(SubSeq(raw, i, j), raw)
        /\ v = UnescapeString(SubSeq(raw, i, j))

\* C11 as stated: rule.apply gives one string per matched element, in
\* document order, each the raw value of its element unescaped first and
\* trimmed second, so none has leading or trailing white space.
C11_ExtractorAsStated == Applied => OnePerMatch(UnescapedThenTrimmed)

\* C11: rule.apply gives one string per matched element, in document order,
\* each the raw value of its element trimmed first and unescaped second: the
\* trimmed raw value has no leading or trailing white space, the string got
\* from it by unescaping may have.
C11_Extractor == Applied => OnePerMatch(TrimmedThenUnescaped)

\* two matched elements, the rule asks for an attribute that the first lacks
\* and the second holds with a leading blank
C11_Witness ==
    /\ Applied /\ rules[1].Attribute # <<>>
    /\ Len(doc) = 2 /\ doc[1].match /\ doc[2].match
    /\ ~doc[1].has /\ doc[2].has /\ doc[2].attr = <<" ", "9">>
    /\ extracted = << <<>>, <<"9">> >>


\* ------------------------------------- claims about the prepared mapping
KnownTypes == {"string", "[]string", "[]map[string]string", "map[string]any"}

\* every rule name finds the shapes it needs: nested mappings down to its
\* slot, there a list of strings or a list of records
ShapesHold ==
    \A k \in 1..Len(rules) : \A x \in Needs(rules[k].Name) :
        x[1] \in DOMAIN m /\ m[x[1]].t = x[2]

\* a value is reachable when every key above it holds a nested mapping
Reachable(mm, p) ==
    \A j \in 1..(Len(p) - 1) :
        SubSeq(p, 1, j) \in DOMAIN mm /\ mm[SubSeq(p, 1, j)].t = "map[string]any"

WellTyped(mm) == \A p \in DOMAIN mm : Reachable(mm, p) => mm[p].t \in KnownTypes

\* the mapping with the url stored under the key (the default one, or the
\* first segment of a rule name) is well typed and prints
PrintsWithKey(mm) ==
    \A k \in {Key} \cup {PartsOf(rules[j].Name)[1] : j \in 1..Len(rules)} :
        LET mk == Put(mm, <<k>>, StringValue(Url(1)))
        IN  WellTyped(mk) /\ ~printFatal(mk)

\* whichever of the rules in left is applied next and with however many
\* values, addValues does not fail, and so on for the rules that remain;
\* with none left the mapping prints
RECURSIVE SafeFrom(_, _)
SafeFrom(mm, left) ==
    IF left = {} THEN PrintsWithKey(mm)
    ELSE \A k \in left, n \in 0..MaxMatches :
            LET r == addValues(mm, rules[k].Name, Vals(k, n))
            IN  ~r.panic /\ SafeFrom(r.m, left \ {k})

AnyOrderSafe == SafeFrom(m, 1..Len(rules))

\* C12: once prepare has returned no error for the rule names, no addValues
\* for any of them, in any order and with any number of values, fails a
\* type assertion: every intermediate key holds a nested mapping, every
\* one-terminal slot a list of strings, every two-terminal slot a list of
\* records; and with all rules applied and the url stored under the key
\* every reachable value is a string, a list of strings, a list of records
\* or a nested mapping, so printRecursively does not end in its default
\* branch.
C12_TypeSafety ==
    IsNested =>
        /\ \A i \in 1..Len(outcome) : outcome[i] # "panic"
        /\ stderr \notin {"panic: interface conversion", "key has map type"}
        /\ pc \in {"download", "apply"} => ShapesHold
        /\ (pc = "download" /\ outcome = <<>>) => AnyOrderSafe
        /\ (Exited /\ LastOutcome \in {"ok", "render failed"}) =>
            /\ m[<<Key>>].t = "string"
            /\ WellTyped(m) /\ ~printFatal(m)

\* two rules, one three segments deep and one flat, both with matches, have
\* been applied and the mapping has been printed
C12_Witness ==
    /\ IsNested /\ Exited /\ exit = 0
    /\ Len(rules) = 2 /\ counts = <<MaxMatches, 1>>
    /\ Len(PartsOf(rules[1].Name)) = 3 /\ Len(PartsOf(rules[2].Name)) = 1
    /\ m[SlotOf(rules[1].Name)].t = "[]map[string]string"
    /\ m[SlotOf(rules[2].Name)].t = "[]string"
    /\ m[<<Key>>].t = "string"

====
